---- MODULE Spec2Model ----
(***************************************************************************)
(* Model of LoanAllocatorGUI.allocate (src/loan_allocator_gui.py), the     *)
(* allocation of collected payments to submission instalments.             *)
(*                                                                         *)
(* Tables are sequences of rows; a cell is <<>> (null / NaN) or <<v>>.     *)
(* Amounts are Python floats.  A float is modelled as an integer with      *)
(* Precision significant bits: every arithmetic result is rounded to the   *)
(* nearest representable value, ties to even, as IEEE-754 binary64 does    *)
(* with 53 bits.  Integers below 2^Precision are exact.  The unit is half  *)
(* the tolerance of line 220, so that a rounding error can stay within the *)
(* tolerance or exceed it.                                                 *)
(***************************************************************************)
EXTENDS Integers, Sequences, FiniteSets, TLC

VARIABLES sub_cols, col_cols, df_sub, df_col, in_sub,
          pc, i, matches, amount, total_collected, leftover, records,
          total_paid, result, err, run, first

vars == <<sub_cols, col_cols, df_sub, df_col, in_sub,
          pc, i, matches, amount, total_collected, leftover, records,
          total_paid, result, err, run, first>>

----------------------------------------------------------------------------
(* Bounds of the model *)

MaxSub == 2
MaxCol == 2
Precision == 3

(* the 1e-6 of line 220, in units of the model's amounts *)
Tol == 2

----------------------------------------------------------------------------
(* Floating-point arithmetic *)

RECURSIVE Pow2(_)
Pow2(n) == IF n = 0 THEN 1 ELSE 2 * Pow2(n - 1)

Abs(x) == IF x < 0 THEN 0 - x ELSE x

RECURSIVE Quantum(_)
(* spacing of the representable values around magnitude a *)
Quantum(a) == IF a < Pow2(Precision) THEN 1 ELSE 2 * Quantum(a \div 2)

(* round to nearest representable value, ties to even *)
Round(x) ==
  LET a  == Abs(x)
      q  == Quantum(a)
      lo == (a \div q) * q
      up == lo + q
      r  == a - lo
      m  == IF 2 * r < q THEN lo
            ELSE IF 2 * r > q THEN up
            ELSE IF (lo \div q) % 2 = 0 THEN lo ELSE up
  IN IF x < 0 THEN 0 - m ELSE m

FAdd(a, b) == Round(a + b)
FSub(a, b) == Round(a - b)
Min(a, b) == IF a <= b THEN a ELSE b

----------------------------------------------------------------------------
(* Cells and tables *)

Null == <<>>
Cell(v) == <<v>>
Val(c) == c[1]
FillNa(c) == IF c = Null THEN Cell(0) ELSE c

required_sub == {"ID NUMBER", "EMPLOYEE NUMBER", "INSTALMENT AMOUNT"}
required_col == {"ID NUMBER", "EMPLOYEE NUMBER", "PAID"}

RECURSIVE SumFrom(_, _, _)
(* Series.sum(): the values of a column added in row order *)
SumFrom(values, k, acc) ==
  IF k > Len(values) THEN acc
  ELSE SumFrom(values, k + 1, FAdd(acc, values[k]))

ColumnSum(values) == SumFrom(values, 1, 0)

RECURSIVE MatchFrom(_, _, _, _)
(* df.index[df[key] == value].tolist(): the matching row labels in table order *)
MatchFrom(rows, key, value, k) ==
  IF k > Len(rows) THEN <<>>
  ELSE (IF rows[k][key] = value THEN <<k>> ELSE <<>>)
       \o MatchFrom(rows, key, value, k + 1)

Matches(rows, key, value) == MatchFrom(rows, key, value, 1)

----------------------------------------------------------------------------
(* Inputs: the two tables handed to allocate *)

(* the rows the sheets are made of: <<ID NUMBER, EMPLOYEE NUMBER, amount>>.  *)
(* A collected row matches a submission row by both keys, by identity only, *)
(* by employee only (the row of employee B) or not at all; 3 + Round(14 - 3)*)
(* rounds above 14 and 5 + Round(14 - 5) below it.                          *)
SubLines == {<<1, "A", 14>>, <<1, "A", 3>>, <<1, "A", 0 - 1>>, <<2, "B", 3>>}
ColLines == {<<1, "A", 3>>, <<1, "A", 5>>, <<1, "A", 14>>, <<1, "B", 14>>}
PaidCells == {Null, Cell(3)}

SubRow(line, paid) ==
  [id |-> line[1], emp |-> line[2], inst |-> line[3], paid |-> paid, diff |-> Null]
ColRow(line) == [id |-> line[1], emp |-> line[2], paid |-> line[3]]

(* rows of a Submission sheet without / with a PAID column *)
SubRows(cols) ==
  {SubRow(l, p) : l \in SubLines,
                  p \in IF "PAID" \in cols THEN PaidCells ELSE {Null}}
ColRows == {ColRow(l) : l \in ColLines}

SeqsUpTo(S, n) == UNION {[1..m -> S] : m \in 0..n}

SubColumnSets == {c \cup o : c \in SUBSET required_sub, o \in {{}, {"PAID"}}}
ColColumnSets == SUBSET required_col

(* a sheet that lacks a required column is read by no line of allocate, so  *)
(* one row of it is enough; the sheets of a run that passes validation are  *)
(* of any size up to the bounds                                             *)
SheetSize(sc, cc, max) ==
  IF required_sub \subseteq sc /\ required_col \subseteq cc THEN max ELSE 1

NoResult == <<>>
NoError == <<>>

Init ==
  /\ \E sc \in SubColumnSets, cc \in ColColumnSets :
       \E s \in SeqsUpTo(SubRows(sc), SheetSize(sc, cc, MaxSub)),
          c \in SeqsUpTo(ColRows, SheetSize(sc, cc, MaxCol)) :
         /\ sub_cols = sc
         /\ df_sub = s
         /\ in_sub = [cols |-> sc, rows |-> s]
         /\ col_cols = cc
         /\ df_col = c
  /\ pc = "start"
  /\ i = 0
  /\ matches = <<>>
  /\ amount = 0
  /\ total_collected = 0
  /\ leftover = 0
  /\ records = 0
  /\ total_paid = 0
  /\ result = NoResult
  /\ err = NoError
  /\ run = 1
  /\ first = <<>>

----------------------------------------------------------------------------
(* allocate, lines 155-223 *)

(* the Collected sheet taken on trust *)
MissingColUnchecked == {}

MissingSub == required_sub \ sub_cols
MissingCol == required_col \ col_cols

SchemaError(table, missing) == <<table, missing>>
MismatchError == <<"Allocation mismatch between collected and allocated totals.">>

(* lines 159-162: the first missing-column test that fires raises *)
Validate ==
  /\ pc = "start"
  /\ MissingSub # {} \/ MissingCol # {}
  /\ err' = IF MissingSub # {}
            THEN SchemaError("Submission file missing columns", MissingSub)
            ELSE SchemaError("Collected file missing columns", MissingCol)
  /\ pc' = "raised"
  /\ UNCHANGED <<sub_cols, col_cols, df_sub, df_col, in_sub, i, matches, amount,
                 total_collected, leftover, records, total_paid, result,
                 run, first>>

(* lines 164-167 *)
InitPaid(cols, cell) == IF "PAID" \notin cols THEN Cell(0) ELSE FillNa(cell)

(* line 169 *)
Diff(inst, paid) == FSub(inst, paid)

(* the remainder of an earlier call carried into this one *)
LeftoverKept == leftover

(* line 172 *)
LeftoverStart == 0

(* lines 164-174: PAID and DIFF columns, the totals *)
Prepare ==
  /\ pc = "start"
  /\ MissingSub = {} /\ MissingCol = {}
  /\ df_sub' = [k \in 1..Len(df_sub) |->
                  LET p == InitPaid(sub_cols, df_sub[k].paid)
                  IN [df_sub[k] EXCEPT !.paid = p,
                                       !.diff = Cell(Diff(df_sub[k].inst, Val(p)))]]
  /\ sub_cols' = sub_cols \cup {"PAID", "DIFF"}
  /\ total_collected' = ColumnSum([k \in 1..Len(df_col) |-> df_col[k].paid])
  /\ leftover' = LeftoverStart
  /\ records' = Len(df_col)
  /\ pc' = "rows"
  /\ UNCHANGED <<col_cols, df_col, in_sub, i, matches, amount, total_paid,
                 result, err, run, first>>

(* lines 175-180: the next collected row and its identity matches *)
NextRow ==
  /\ pc = "rows"
  /\ i < Len(df_col)
  /\ i' = i + 1
  /\ amount' = df_col[i + 1].paid
  /\ matches' = Matches(df_sub, "id", df_col[i + 1].id)
  /\ pc' = "id_pass"
  /\ UNCHANGED <<sub_cols, col_cols, df_sub, df_col, in_sub, total_collected,
                 leftover, records, total_paid, result, err, run, first>>

(* lines 186 / 202 *)
Remaining(row) == FSub(row.inst, Val(row.paid))

(* lines 189 / 205 *)
Alloc(remaining, amt) == Min(remaining, amt)

(* lines 182 / 198 *)
Exhausted(amt) == amt <= 0

(* lines 187 / 203 *)
Full(remaining) == remaining <= 0

(* PAID updated, DIFF left as it was *)
CreditStaleDiff(row, alloc) ==
  [row EXCEPT !.paid = Cell(FAdd(Val(row.paid), alloc))]

(* lines 190-193 / 206-209: the paired update of PAID and DIFF *)
Credit(row, alloc) ==
  LET paid == FAdd(Val(row.paid), alloc)
  IN [row EXCEPT !.paid = Cell(paid), !.diff = Cell(Diff(row.inst, paid))]

(* one iteration of the loop of lines 181-193 / 197-209 over the row labels *)
(* still to visit; done is where control goes when the loop ends            *)
LoopStep(done) ==
  IF matches = <<>> \/ Exhausted(amount)
  THEN /\ pc' = done
       /\ matches' = <<>>
       /\ UNCHANGED <<df_sub, amount>>
  ELSE LET idx == Head(matches)
           remaining == Remaining(df_sub[idx])
           alloc == Alloc(remaining, amount)
       IN /\ matches' = Tail(matches)
          /\ UNCHANGED pc
          /\ IF Full(remaining)
             THEN UNCHANGED <<df_sub, amount>>
             ELSE /\ df_sub' = [df_sub EXCEPT ![idx] = Credit(df_sub[idx], alloc)]
                  /\ amount' = FSub(amount, alloc)

IdPass ==
  /\ pc = "id_pass"
  /\ LoopStep("id_done")
  /\ UNCHANGED <<sub_cols, col_cols, df_col, in_sub, i, total_collected,
                 leftover, records, total_paid, result, err, run, first>>

(* line 195 *)
Fallback(amt) == amt > 0

(* lines 195-196: the employee pass is entered with what is left *)
AfterIdPass ==
  /\ pc = "id_done"
  /\ IF Fallback(amount)
     THEN /\ matches' = Matches(df_sub, "emp", df_col[i].emp)
          /\ pc' = "emp_pass"
     ELSE /\ matches' = <<>>
          /\ pc' = "emp_done"
  /\ UNCHANGED <<sub_cols, col_cols, df_sub, df_col, in_sub, i, amount,
                 total_collected, leftover, records, total_paid, result, err,
                 run, first>>

EmpPass ==
  /\ pc = "emp_pass"
  /\ LoopStep("emp_done")
  /\ UNCHANGED <<sub_cols, col_cols, df_col, in_sub, i, total_collected,
                 leftover, records, total_paid, result, err, run, first>>

(* lines 211-212 *)
AddLeftover(left, amt) == IF amt > 0 THEN FAdd(left, amt) ELSE left

EndRow ==
  /\ pc = "emp_done"
  /\ leftover' = AddLeftover(leftover, amount)
  /\ pc' = "rows"
  /\ UNCHANGED <<sub_cols, col_cols, df_sub, df_col, in_sub, i, matches, amount,
                 total_collected, records, total_paid, result, err, run, first>>

(* the totals never compared *)
MismatchIgnored(paid, collected, left) == FALSE

(* line 220 *)
Mismatch(paid, collected, left) == Abs(FSub(paid, FSub(collected, left))) > Tol

(* lines 218-223: the totals are compared, the result is returned *)
Finish ==
  /\ pc = "rows"
  /\ i >= Len(df_col)
  /\ total_paid' = ColumnSum([k \in 1..Len(df_sub) |-> Val(df_sub[k].paid)])
  /\ IF Mismatch(total_paid', total_collected, leftover)
     THEN /\ err' = MismatchError
          /\ pc' = "raised"
          /\ UNCHANGED result
     ELSE /\ result' = [records |-> records, total_paid |-> total_paid',
                        leftover |-> leftover, output_path |-> ""]
          /\ pc' = "returned"
          /\ UNCHANGED err
  /\ UNCHANGED <<sub_cols, col_cols, df_sub, df_col, in_sub, i, matches, amount,
                 total_collected, leftover, records, run, first>>

Outcome == [cols |-> sub_cols, rows |-> df_sub, result |-> result, err |-> err]

(* a second call of allocate, on identical copies of the first call's inputs *)
Rerun ==
  /\ pc \in {"returned", "raised"}
  /\ run = 1
  /\ first' = Outcome
  /\ run' = 2
  /\ sub_cols' = in_sub.cols
  /\ df_sub' = in_sub.rows
  /\ pc' = "start"
  /\ i' = 0
  /\ matches' = <<>>
  /\ result' = NoResult
  /\ err' = NoError
  /\ UNCHANGED <<col_cols, df_col, in_sub, amount, total_collected, leftover,
                 records, total_paid>>

Next ==
  \/ Validate
  \/ Prepare
  \/ NextRow
  \/ IdPass
  \/ AfterIdPass
  \/ EmpPass
  \/ EndRow
  \/ Finish

Spec == Init /\ [][Next]_vars

NextTwice == Next \/ Rerun

SpecTwice == Init /\ [][NextTwice]_vars

----------------------------------------------------------------------------
(* Vocabulary of the properties *)

SubIndex == 1..Len(df_sub)
SchemaOk == required_sub \subseteq in_sub.cols /\ required_col \subseteq col_cols
NonNegativeInst == \A k \in 1..Len(in_sub.rows) : in_sub.rows[k].inst >= 0
(* PAID absent, null, or an amount already paid, within the instalment *)
PaidWithinInst ==
  \A k \in 1..Len(in_sub.rows) :
    in_sub.rows[k].paid # Null =>
      /\ 0 <= Val(in_sub.rows[k].paid)
      /\ Val(in_sub.rows[k].paid) <= in_sub.rows[k].inst
ValidInput == SchemaOk /\ NonNegativeInst /\ PaidWithinInst
(* valid input on which nothing was paid before the call *)
NothingPaidYet ==
  /\ SchemaOk /\ NonNegativeInst
  /\ \A k \in 1..Len(in_sub.rows) : in_sub.rows[k].paid = Null
Completed == pc \in {"returned", "raised"}
PaidOf(k) == Val(df_sub[k].paid)
HasCapacity(k) == PaidOf(k) < df_sub[k].inst
(* the row the running step credits, if it credits one *)
Credited(k) == df_sub'[k].paid # df_sub[k].paid
InPass == pc \in {"id_pass", "emp_pass"}
PassKey == IF pc = "id_pass" THEN "id" ELSE "emp"
MatchesRow(k, key) == df_sub[k][key] = df_col[i][key]

----------------------------------------------------------------------------
(* C1: conservation. On every valid input pair allocate returns, and       *)
(* total_paid + leftover equals total_collected (within the tolerance); the *)
(* mismatch error is never raised.                                          *)
C1_Conservation ==
  (ValidInput /\ Completed) =>
     /\ pc = "returned"
     /\ Abs(result.total_paid + result.leftover - total_collected) <= Tol

(* C2: cap invariant. With non-negative instalment amounts, once allocate   *)
(* has returned every submission record has 0 <= paid <= instalment_amount  *)
(* (stated here for the sheets on which nothing was paid before the call).  *)
C2_CapInvariant ==
  (NothingPaidYet /\ pc = "returned") =>
     \A k \in SubIndex : 0 <= PaidOf(k) /\ PaidOf(k) <= df_sub[k].inst

(* C3: diff consistency. Once the DIFF column exists, after every step and  *)
(* at return, diff = instalment_amount - paid on every submission record.   *)
C3_DiffConsistent ==
  "DIFF" \in sub_cols =>
     \A k \in SubIndex :
        /\ df_sub[k].diff # Null
        /\ Val(df_sub[k].diff) = Round(df_sub[k].inst - PaidOf(k))

(* a returned run in which a record whose PAID was null took a payment and  *)
(* another record was matched by nothing                                    *)
C3_Witness ==
  /\ pc = "returned"
  /\ "DIFF" \in sub_cols
  /\ \E k \in SubIndex :
        /\ "PAID" \in in_sub.cols /\ in_sub.rows[k].paid = Null
        /\ PaidOf(k) > 0 /\ Val(df_sub[k].diff) > 0
  /\ \E k \in SubIndex :
        /\ \A j \in 1..Len(df_col) :
              df_col[j].id # df_sub[k].id /\ df_col[j].emp # df_sub[k].emp
        /\ Val(df_sub[k].diff) = df_sub[k].inst

C5_SchemaFailure ==
  ~SchemaOk =>
     /\ pc \in {"start", "raised"}
     /\ df_sub = in_sub.rows /\ sub_cols = in_sub.cols
     /\ i = 0 /\ result = NoResult
     /\ pc = "raised" =>
          \/ /\ err = SchemaError("Submission file missing columns",
                                  required_sub \ in_sub.cols)
             /\ required_sub \ in_sub.cols # {}
          \/ /\ err = SchemaError("Collected file missing columns",
                                  required_col \ col_cols)
             /\ required_col \ col_cols # {}

(* the failure of a Collected sheet without PAID, the Submission sheet      *)
(* holding a row with a null PAID                                           *)
C5_Witness ==
  /\ pc = "raised"
  /\ required_sub \subseteq in_sub.cols /\ "PAID" \in in_sub.cols
  /\ Len(df_sub) = 1 /\ df_sub[1].paid = Null
  /\ err = SchemaError("Collected file missing columns", {"PAID"})

(* C6: no collected funds invented. On valid input the total_paid of the    *)
(* returned AllocationResult is never greater than total_collected (stated  *)
(* here for the sheets on which nothing was paid before the call).          *)
C6_NoFundsInvented ==
  (NothingPaidYet /\ pc = "returned") => result.total_paid <= total_collected

(* C6 as amended: ... never greater than total_collected by more than the   *)
(* tolerance of the consistency check.                                      *)
C6_NoFundsInventedTol ==
  (ValidInput /\ pc = "returned") => result.total_paid <= total_collected + Tol

(* a returned result with funds allocated and funds left over *)
C6_Witness ==
  /\ ValidInput /\ pc = "returned"
  /\ result.total_paid > 0
  /\ result.leftover > 0
  /\ result.total_paid < total_collected
  /\ \E k \in SubIndex : PaidOf(k) = df_sub[k].inst

(* C7: a negative instalment amount makes allocate fail instead of          *)
(* returning an AllocationResult.                                           *)
C7_NegativeRejected ==
  (SchemaOk /\ ~NonNegativeInst) => pc # "returned"

(* C8: identity before employee. The employee pass credits a record whose   *)
(* id differs from the collected record's only when every record with the   *)
(* collected record's id is at or above its instalment amount, and the      *)
(* pass is not entered once the identity pass has consumed the amount       *)
(* (stated here for valid sheets on which nothing was paid before).         *)
C8_IdentityFirst ==
  [][/\ (NothingPaidYet /\ pc = "emp_pass" =>
           \A k \in SubIndex :
              (Credited(k) /\ ~MatchesRow(k, "id")) =>
                 \A j \in SubIndex : MatchesRow(j, "id") => ~HasCapacity(j))
     /\ (pc = "id_done" /\ amount <= 0 => pc' # "emp_pass")]_vars

(* C9: leftover only when no capacity remains. leftover never decreases,    *)
(* and it grows by a collected record's remainder only when every record    *)
(* matching it by id or by employee is at or above its instalment amount    *)
(* (stated here for valid sheets on which nothing was paid before).         *)
C9_LeftoverNoCapacity ==
  [][/\ leftover' >= leftover
     /\ (NothingPaidYet /\ pc = "emp_done" /\ leftover' > leftover) =>
           \A k \in SubIndex :
              (MatchesRow(k, "id") \/ MatchesRow(k, "emp")) => ~HasCapacity(k)]_vars

(* C10: in-order greedy filling. Within a pass a matching record is         *)
(* credited only after every earlier matching record in table order has     *)
(* reached paid = instalment_amount (stated here for valid sheets on which  *)
(* nothing was paid before).                                                *)
C10_InOrderFilling ==
  [][(NothingPaidYet /\ InPass) =>
       \A k \in SubIndex :
          Credited(k) =>
             \A j \in 1..(k - 1) :
                MatchesRow(j, PassKey) => PaidOf(j) = df_sub[j].inst]_vars

====
